---- MODULE Spec2Model ----
(***************************************************************************)
(* Model of quantal-base-model (src/lib/index.js): the BaseModel factory   *)
(* and the CRUD operations it layers over bookshelf-modelbase.             *)
(*                                                                         *)
(* src/lib/index.js holds two revisions of the factory (lines 13-192 and   *)
(* lines 207-374).  They differ in the parameter lists of findAll and      *)
(* upsert and in the presence of findWhere; `build` says which one is      *)
(* loaded.                                                                 *)
(*                                                                         *)
(* JavaScript values are strings: "undefined", "null", "true", "false",    *)
(* "obj" (an options bag), "data" (filter / id / row data), "bookshelf"    *)
(* (an initialised runtime handle).                                        *)
(*                                                                         *)
(* External collaborators are nondeterministic: the delegate               *)
(* (bookshelf.Model.prototype.constructor.<op>) throws synchronously,      *)
(* resolves or rejects with any value of its range; the translation        *)
(* utility CommonErrors.utils.bookshelfToApp is some function fixed for    *)
(* the whole run (see TranslationChoices).                                 *)
(***************************************************************************)
EXTENDS Integers, Sequences, FiniteSets, TLC

VARIABLES
    build,            \* which revision of src/lib/index.js is loaded
    bookshelfToApp,   \* CommonErrors.utils.bookshelfToApp, as a function
    factoryCalls,     \* number of BaseModel(...) calls made so far
    lastFactory,      \* handle and outcome of the latest BaseModel call
    pluginCalls,      \* times bookshelf.plugin(pluggable) ran on the handle
    modelBases,       \* times require('bookshelf-modelbase')(bookshelf) ran
    definitions,      \* model definitions returned by the factory
    calls             \* per caller: the operation call in progress

vars == <<build, bookshelfToApp, factoryCalls, lastFactory, pluginCalls,
          modelBases, definitions, calls>>

handleVars == <<pluginCalls, modelBases, definitions>>

(***************************************************************************)
(* Bounds                                                                  *)
(***************************************************************************)
MaxFactoryCalls == 2

Callers == {"c1", "c2"}

Builds == {1, 2}

(***************************************************************************)
(* JavaScript values                                                       *)
(***************************************************************************)
Truthy(v) == v \notin {"undefined", "null", "false"}

HandleValues == {"undefined", "null", "bookshelf"}

OptionValues == {"null", "obj"}

FlagValues == {"omitted", "true", "false"}

(***************************************************************************)
(* Errors                                                                  *)
(***************************************************************************)
LibSignals == {"bookshelf.NotFoundError", "bookshelf.EmptyError",
               "bookshelf.NoRowsDeletedError", "bookshelf.NoRowsUpdatedError"}

OtherLibErrors == {"DbError", "UnknownError", "ToJSONError"}

AppErrors == {"NotFoundError", "NoRowsDeletedError", "NoRowsUpdatedError",
              "AppDbError"}

Errors == LibSignals \cup OtherLibErrors \cup AppErrors

\* The application-level error each library signal corresponds to.
AppCounterpart(e) ==
    CASE e = "bookshelf.NotFoundError"      -> "NotFoundError"
      [] e = "bookshelf.EmptyError"         -> "NotFoundError"
      [] e = "bookshelf.NoRowsDeletedError" -> "NoRowsDeletedError"
      [] e = "bookshelf.NoRowsUpdatedError" -> "NoRowsUpdatedError"
      [] OTHER                              -> e

\* bookshelfToApp lives in quantal-errors, outside this repository.  What is
\* known of it: it maps database-level error shapes to the application
\* taxonomy ("DbError" stands for a recognised shape) and forwards what it
\* does not recognise unchanged ("UnknownError", "ToJSONError" and the
\* application-level errors stand for those).  Whether it recognises a
\* library signal is not known: each signal is either forwarded or mapped
\* to its application-level counterpart.
Translation(recognised) ==
    [e \in Errors |->
        CASE e = "DbError"       -> "AppDbError"
          [] e \in recognised    -> AppCounterpart(e)
          [] OTHER               -> e]

TranslationChoices == {Translation(r) : r \in SUBSET LibSignals}

\* The same without the assumption on application-level errors: the
\* translation may turn NotFoundError, NoRowsDeletedError and
\* NoRowsUpdatedError into any error of the application taxonomy.
RemappingErrors == AppErrors \ {"AppDbError"}

AnyTranslationChoices ==
    { [e \in Errors |-> IF e \in RemappingErrors THEN g[e] ELSE t[e]] :
        t \in {Translation({}), Translation(LibSignals)},
        g \in [RemappingErrors -> AppErrors] }

(***************************************************************************)
(* Operations                                                              *)
(***************************************************************************)
AllOps == {"findOne", "create", "destroy", "findAll", "findWhere",
           "findById", "findOrCreate", "update", "upsert"}

\* The operations a revision defines: findWhere exists in the first only.
Ops(b) == IF b = 1 THEN AllOps ELSE AllOps \ {"findWhere"}

\* Position of bConvertResultToJson in the parameter list.
FlagIndex(b, op) ==
    CASE op = "destroy"            -> 2
      [] op = "upsert"  /\ b = 1   -> 4
      [] op = "upsert"  /\ b = 2   -> 3
      [] op = "findAll" /\ b = 2   -> 2
      [] OTHER                     -> 3

\* Position of the conversion flag in the documented call form
\* (the @param lists; the same in both revisions except findAll).
DocFlagIndex(op) ==
    CASE op = "destroy" -> 2
      [] op = "upsert"  -> 4
      [] OTHER          -> 3

\* The arguments of a call in the documented form: the inputs, the options
\* bag and, unless omitted, the conversion flag.
DataArgs(op) ==
    CASE op = "destroy" -> <<>>
      [] op = "upsert"  -> <<"data", "data">>
      [] OTHER          -> <<"data">>

CallArgs(op, options, flag) ==
    DataArgs(op) \o <<options>> \o (IF flag = "omitted" THEN <<>> ELSE <<flag>>)

\* Parameter binding with the default `bConvertResultToJson = true`:
\* the default applies when the argument is missing or undefined.
BoundFlag(b, op, args) ==
    LET i == FlagIndex(b, op)
    IN  IF i > Len(args) \/ args[i] = "undefined" THEN "true" ELSE args[i]

\* Parameter i of a call, undefined when not passed.
Param(args, i) == IF i > Len(args) THEN "undefined" ELSE args[i]

(***************************************************************************)
(* Promises and the handlers of the chain                                  *)
(***************************************************************************)
Resolved(v) == [kind |-> "resolved", value |-> v]
Rejected(e) == [kind |-> "rejected", value |-> e]
Thrown(e)   == [kind |-> "thrown",   value |-> e]
NoOutcome   == [kind |-> "none",     value |-> "undefined"]

\* What a delegate resolves with: a native instance (a collection for
\* findAll), nothing, or an instance whose toJSON throws.
DelegateResults(op) ==
    (IF op = "findAll" THEN {"collection"} ELSE {"model"})
        \cup {"null", "undefined", "badModel"}

DelegateErrors == LibSignals \cup {"DbError", "UnknownError"}

\* model.toJSON(): the plain value, or a throw.
ToJSON(v) ==
    CASE v = "model"      -> Resolved("plainModel")
      [] v = "collection" -> Resolved("plainCollection")
      [] OTHER            -> Rejected("ToJSONError")

\* The success handler without its `if (!model) return null` line.
ThenHandlerNoNullCheck(p, flag) ==
    IF p.kind # "resolved" THEN p
    ELSE IF ~Truthy(flag) THEN Resolved(p.value)
    ELSE ToJSON(p.value)

\* .then(model => { if (!flag) return model; if (!model) return null;
\*                  return model.toJSON() })
ThenHandler(p, flag) ==
    IF p.kind # "resolved" THEN p
    ELSE IF ~Truthy(flag) THEN Resolved(p.value)
    ELSE IF ~Truthy(p.value) THEN Resolved("null")
    ELSE ToJSON(p.value)

\* .catch(Class, () => Promise.reject(new AppError(...)))
CatchClass(p, h) ==
    IF p.kind = "rejected" /\ p.value = h[1] THEN Rejected(h[2]) ELSE p

\* A chain that ends without the catch-all.
CatchAllMissing(p) == p

\* .catch(err => Promise.reject(CommonErrors.utils.bookshelfToApp(err)))
CatchAll(p) ==
    IF p.kind = "rejected" THEN Rejected(bookshelfToApp[p.value]) ELSE p

\* Every operation with the handlers of findOne only.
HandlersWithoutNoRows(op) ==
    << <<"bookshelf.NotFoundError", "NotFoundError">>,
       <<"bookshelf.EmptyError", "NotFoundError">> >>

\* The class-filtered handlers of an operation, in chain order.
Handlers(op) ==
    CASE op = "destroy" ->
            << <<"bookshelf.NotFoundError", "NotFoundError">>,
               <<"bookshelf.NoRowsDeletedError", "NoRowsDeletedError">> >>
      [] op \in {"update", "upsert"} ->
            << <<"bookshelf.NotFoundError", "NotFoundError">>,
               <<"bookshelf.EmptyError", "NotFoundError">>,
               <<"bookshelf.NoRowsUpdatedError", "NoRowsUpdatedError">> >>
      [] OTHER ->
            << <<"bookshelf.NotFoundError", "NotFoundError">>,
               <<"bookshelf.EmptyError", "NotFoundError">> >>

RECURSIVE CatchChain(_, _)
CatchChain(p, hs) ==
    IF hs = <<>> THEN p ELSE CatchChain(CatchClass(p, Head(hs)), Tail(hs))

\* The chain with the catch-all written before the class-filtered handlers.
ChainCatchAllFirst(op, p, flag) ==
    CatchChain(CatchAll(ThenHandler(p, flag)), Handlers(op))

\* The whole chain hung on the delegate's promise p.
Chain(op, p, flag) == CatchAll(CatchChain(ThenHandler(p, flag), Handlers(op)))

(***************************************************************************)
(* State                                                                   *)
(***************************************************************************)
IdleCall == [stage |-> "idle", op |-> "none", args |-> <<>>, flag |-> "true",
             dop |-> "none", dargs |-> <<>>, ncalls |-> 0,
             del |-> NoOutcome, res |-> NoOutcome]

OffCall == [IdleCall EXCEPT !.stage = "off"]

NoFactory == [handle |-> "undefined", outcome |-> "none"]

InitCommon ==
    /\ build \in Builds
    /\ factoryCalls = 0
    /\ lastFactory = NoFactory
    /\ pluginCalls = 0
    /\ modelBases = 0
    /\ definitions = 0

\* One caller, awaiting each call before making the next.
Init ==
    /\ InitCommon
    /\ bookshelfToApp \in TranslationChoices
    /\ calls = [c \in Callers |-> IF c = "c1" THEN IdleCall ELSE OffCall]

\* Both callers issue calls concurrently.
InitConc ==
    /\ InitCommon
    /\ bookshelfToApp \in {Translation({}), Translation(LibSignals)}
    /\ calls = [c \in Callers |-> IdleCall]

\* One caller, and a translation that may change application-level errors.
InitAnyTranslation ==
    /\ InitCommon
    /\ bookshelfToApp \in AnyTranslationChoices
    /\ calls = [c \in Callers |-> IF c = "c1" THEN IdleCall ELSE OffCall]

Concurrent == \A c \in Callers : calls[c].stage # "off"

(***************************************************************************)
(* The factory (lines 13-19, 191 and 207-213, 373)                         *)
(***************************************************************************)
\* A guard written `bookshelf === undefined`.
HandleMissingUndefinedOnly(h) == h = "undefined"

\* if (!bookshelf)
HandleMissing(h) == ~Truthy(h)

Factory(h) ==
    /\ factoryCalls < MaxFactoryCalls
    /\ factoryCalls' = factoryCalls + 1
    /\ IF HandleMissing(h)
       THEN /\ lastFactory' = [handle |-> h, outcome |-> "IllegalArgumentError"]
            /\ UNCHANGED handleVars
       ELSE /\ modelBases' = modelBases + 1
            /\ pluginCalls' = pluginCalls + 1
            /\ definitions' = definitions + 1
            /\ lastFactory' = [handle |-> h, outcome |-> "returned"]
    /\ UNCHANGED <<build, bookshelfToApp, calls>>

(***************************************************************************)
(* An operation call                                                       *)
(***************************************************************************)
\* findWhere calling this.findAll(filter, options), the flag left out.
EnteredDropsFlag(b, op, args) ==
    IF op = "findWhere"
    THEN [op |-> "findAll", args |-> <<Param(args, 1), Param(args, 2)>>]
    ELSE [op |-> op, args |-> args]

\* The function whose body runs the delegate, and the arguments it is
\* entered with: findWhere enters findAll with its three parameters.
Entered(b, op, args) ==
    IF op = "findWhere"
    THEN [op |-> "findAll",
          args |-> <<Param(args, 1), Param(args, 2), BoundFlag(b, op, args)>>]
    ELSE [op |-> op, args |-> args]

\* Inputs explored: every call form with one caller, a reduced set with two.
InputOptions == IF Concurrent THEN {"obj"} ELSE OptionValues
InputFlags   == IF Concurrent THEN {"omitted", "false"} ELSE FlagValues
InputResults(op) ==
    IF Concurrent THEN DelegateResults(op) \ {"undefined", "badModel"}
    ELSE DelegateResults(op)
InputErrors ==
    IF Concurrent
    THEN {"bookshelf.NotFoundError", "bookshelf.NoRowsUpdatedError", "DbError"}
    ELSE DelegateErrors

\* The synchronous part: bind the parameters and call
\* bookshelf.Model.prototype.constructor.<op>.apply(this, arguments);
\* the delegate returns a pending promise.
Invoke(c) ==
    /\ calls[c].stage = "idle"
    /\ definitions > 0
    /\ \E op \in Ops(build), options \in InputOptions, flag \in InputFlags :
         LET args == CallArgs(op, options, flag)
             e    == Entered(build, op, args)
         IN  calls' = [calls EXCEPT ![c] =
                 [stage |-> "pending", op |-> op, args |-> args,
                  flag |-> BoundFlag(build, e.op, e.args),
                  dop |-> e.op, dargs |-> e.args, ncalls |-> 1,
                  del |-> NoOutcome, res |-> NoOutcome]]
    /\ UNCHANGED <<build, bookshelfToApp, factoryCalls, lastFactory, handleVars>>

\* The same, with the delegate throwing before it returns a promise: there
\* is no try block and no promise yet, so the exception leaves the operation.
InvokeThrows(c) ==
    /\ calls[c].stage = "idle"
    /\ definitions > 0
    /\ \E op \in Ops(build), options \in InputOptions, flag \in InputFlags,
          err \in {"UnknownError"} :
         LET args == CallArgs(op, options, flag)
             e    == Entered(build, op, args)
         IN  calls' = [calls EXCEPT ![c] =
                 [stage |-> "done", op |-> op, args |-> args,
                  flag |-> BoundFlag(build, e.op, e.args),
                  dop |-> e.op, dargs |-> e.args, ncalls |-> 1,
                  del |-> Thrown(err), res |-> Thrown(err)]]
    /\ UNCHANGED <<build, bookshelfToApp, factoryCalls, lastFactory, handleVars>>

\* The delegate's promise settles.
DelegateSettles(c) ==
    /\ calls[c].stage = "pending"
    /\ \E p \in {Resolved(v) : v \in InputResults(calls[c].dop)}
                  \cup {Rejected(e) : e \in InputErrors} :
         calls' = [calls EXCEPT ![c].stage = "settled", ![c].del = p]
    /\ UNCHANGED <<build, bookshelfToApp, factoryCalls, lastFactory, handleVars>>

\* The flag kept in a field of the shared model definition, overwritten by
\* whichever call came in while this one was pending.
FlagSeenByShared(c) ==
    LET others == {d \in Callers \ {c} : calls[d].stage \in {"pending", "settled", "done"}}
    IN  IF others = {} THEN calls[c].flag
        ELSE calls[CHOOSE d \in others : TRUE].flag

\* The conversion flag the handlers of caller c's chain see: the parameter
\* captured by the closure of that call.
FlagSeenBy(c) == calls[c].flag

\* The chain of the call runs on the settled promise.
RunChain(c) ==
    /\ calls[c].stage = "settled"
    /\ calls' = [calls EXCEPT
                   ![c].stage = "done",
                   ![c].res = Chain(calls[c].dop, calls[c].del, FlagSeenBy(c))]
    /\ UNCHANGED <<build, bookshelfToApp, factoryCalls, lastFactory, handleVars>>

\* The caller takes the outcome; it may call again.
Collect(c) ==
    /\ calls[c].stage = "done"
    /\ calls' = [calls EXCEPT ![c] = IdleCall]
    /\ UNCHANGED <<build, bookshelfToApp, factoryCalls, lastFactory, handleVars>>

Next ==
    \/ \E h \in HandleValues : Factory(h)
    \/ \E c \in Callers : Invoke(c)
    \/ \E c \in Callers : InvokeThrows(c)
    \/ \E c \in Callers : DelegateSettles(c)
    \/ \E c \in Callers : RunChain(c)
    \/ \E c \in Callers : Collect(c)

Spec == Init /\ [][Next]_vars

SpecConc == InitConc /\ [][Next]_vars

SpecAnyTranslation == InitAnyTranslation /\ [][Next]_vars

(***************************************************************************)
(* Claims                                                                  *)
(***************************************************************************)
Done(c) == calls[c].stage = "done"

Convertible(v) == v \in {"model", "collection"}

\* C1: when the delegate resolves, an operation whose conversion flag is
\* false resolves with the delegate's result itself; with the flag true it
\* resolves with null for a null or absent result and with the toJSON
\* value of any other result.
C1_ConversionRule ==
    \A c \in Callers :
        Done(c) /\ calls[c].del.kind = "resolved" =>
            LET v == calls[c].del.value
            IN  /\ calls[c].flag = "false" => calls[c].res = Resolved(v)
                /\ calls[c].flag = "true" /\ v \in {"null", "undefined"}
                       => calls[c].res = Resolved("null")
                /\ calls[c].flag = "true" /\ Convertible(v)
                       => /\ calls[c].res.kind = "resolved"
                          /\ calls[c].res = ToJSON(v)

C1_Witness ==
    \E c \in Callers :
        /\ Done(c)
        /\ calls[c].flag = "true"
        /\ calls[c].del = Resolved("undefined")
        /\ calls[c].res = Resolved("null")

\* C2 (as stated): in every operation a delegate rejection with the
\* library's not-found signal or its empty-result signal ends in a rejection
\* with the application-level NotFoundError.
C2_NotFoundInEveryOperation ==
    \A c \in Callers :
        /\ Done(c)
        /\ calls[c].del.kind = "rejected"
        /\ calls[c].del.value \in {"bookshelf.NotFoundError", "bookshelf.EmptyError"}
        => calls[c].res = Rejected("NotFoundError")

\* C3: destroy turns the library's no-rows-deleted signal into
\* NoRowsDeletedError; update and upsert turn its no-rows-updated signal
\* into NoRowsUpdatedError.
C3_NoRowsAffected ==
    \A c \in Callers :
        Done(c) /\ calls[c].del.kind = "rejected" =>
            /\ calls[c].op = "destroy"
                 /\ calls[c].del.value = "bookshelf.NoRowsDeletedError"
                 => calls[c].res = Rejected("NoRowsDeletedError")
            /\ calls[c].op \in {"update", "upsert"}
                 /\ calls[c].del.value = "bookshelf.NoRowsUpdatedError"
                 => calls[c].res = Rejected("NoRowsUpdatedError")

C3_Witness ==
    /\ bookshelfToApp["bookshelf.NoRowsDeletedError"] = "bookshelf.NoRowsDeletedError"
    /\ \E c \in Callers :
        /\ Done(c)
        /\ calls[c].op = "destroy"
        /\ calls[c].del = Rejected("bookshelf.NoRowsDeletedError")
        /\ calls[c].res = Rejected("NoRowsDeletedError")

\* C4: a delegate error that is none of the four named library signals is
\* rejected as bookshelfToApp translates it: a recognised database error
\* as its application-level error, an unrecognised error as itself.
C4_GenericTranslation ==
    \A c \in Callers :
        Done(c) /\ calls[c].del.kind = "rejected"
                /\ calls[c].del.value \notin LibSignals =>
            /\ calls[c].res = Rejected(bookshelfToApp[calls[c].del.value])
            /\ calls[c].del.value = "DbError"
                 => calls[c].res = Rejected("AppDbError")
            /\ calls[c].del.value = "UnknownError"
                 => calls[c].res = Rejected("UnknownError")

C4_Witness ==
    \E c \in Callers :
        /\ Done(c)
        /\ calls[c].del = Rejected("DbError")
        /\ calls[c].res = Rejected("AppDbError")

\* C5: a factory call with a falsy handle throws IllegalArgumentError and
\* changes nothing else: no plugin is registered, no base model is built,
\* no definition is returned, no operation call is started.
C5_MissingHandleThrows ==
    [][ factoryCalls' # factoryCalls /\ ~Truthy(lastFactory'.handle) =>
          /\ lastFactory'.outcome = "IllegalArgumentError"
          /\ UNCHANGED <<pluginCalls, modelBases, definitions, calls>> ]_vars

C5_Witness ==
    /\ lastFactory = [handle |-> "null", outcome |-> "IllegalArgumentError"]
    /\ definitions = 1
    /\ pluginCalls = 1

\* C6 (as stated): the conversion flag is the trailing argument of the
\* documented call form: false there returns the delegate's result as it
\* is, whatever the options, and leaving it out converts the result.
C6_FlagIsTrailingArgument ==
    \A c \in Callers :
        Done(c) /\ calls[c].del.kind = "resolved" =>
            LET v      == calls[c].del.value
                passed == Param(calls[c].args, DocFlagIndex(calls[c].op))
            IN  /\ passed = "false" => calls[c].res = Resolved(v)
                /\ passed = "undefined" /\ Convertible(v)
                       => calls[c].res = ToJSON(v)

\* C7: a findWhere call ends as findAll ends for the same arguments and
\* the same delegate outcome, and calls the delegate's findAll once, with
\* the same filter and options.
C7_FindWhereIsFindAll ==
    \A c \in Callers :
        Done(c) /\ calls[c].op = "findWhere" /\ calls[c].del.kind # "thrown" =>
            /\ calls[c].res = Chain("findAll", calls[c].del,
                                    BoundFlag(build, "findAll", calls[c].args))
            /\ calls[c].dop = "findAll"
            /\ calls[c].ncalls = 1
            /\ calls[c].dargs[1] = Param(calls[c].args, 1)
            /\ calls[c].dargs[2] = Param(calls[c].args, 2)

C7_Witness ==
    \E c \in Callers :
        /\ Done(c)
        /\ calls[c].op = "findWhere"
        /\ calls[c].args = <<"data", "obj", "false">>
        /\ calls[c].del = Resolved("collection")
        /\ calls[c].res = Resolved("collection")

\* C8 (as stated): each call invokes the delegate once, and a delegate
\* rejection, a synchronous throw of the delegate or a failing conversion
\* ends in a rejection of the call.
C8_FailuresAreRejections ==
    \A c \in Callers :
        Done(c) =>
            /\ calls[c].ncalls = 1
            /\ calls[c].del.kind \in {"rejected", "thrown"}
                 => calls[c].res.kind = "rejected"
            /\ calls[c].del = Resolved("badModel") /\ Truthy(calls[c].flag)
                 => calls[c].res.kind = "rejected"

\* C9 (as stated): however often the factory is called on the handle, the
\* plugin is installed on it at most once.
C9_PluginInstalledOnce == pluginCalls <= 1

\* A finished call's outcome is the chain applied to its own delegate
\* outcome and its own conversion flag.
OwnOutcome ==
    \A c \in Callers :
        Done(c) /\ calls[c].del.kind # "thrown" =>
            calls[c].res = Chain(calls[c].dop, calls[c].del, calls[c].flag)

\* C10: operation calls leave the model definition and the handle's
\* plugins as they are, a step of one call leaves the other call as it
\* is, and a call's outcome is determined by its own delegate outcome and
\* its own conversion flag, whatever else is pending.
C10_NoSharedState ==
    /\ []OwnOutcome
    /\ [][ calls' # calls =>
             /\ UNCHANGED <<pluginCalls, modelBases, definitions>>
             /\ Cardinality({c \in Callers : calls'[c] # calls[c]}) = 1 ]_vars

C10_Witness ==
    /\ calls["c1"].stage = "done" /\ calls["c2"].stage = "done"
    /\ calls["c1"].op = calls["c2"].op
    /\ calls["c1"].del = calls["c2"].del
    /\ calls["c1"].del.kind = "resolved"
    /\ calls["c1"].flag # calls["c2"].flag
    /\ calls["c1"].res # calls["c2"].res

\* The error a rejection carries when it reaches the catch-all of the
\* operation: the application error a class-filtered handler has just
\* created for the signal, or the error itself where no handler matched.
BeforeCatchAll(op, e) ==
    CASE e = "bookshelf.NotFoundError" -> "NotFoundError"
      [] e = "bookshelf.EmptyError" /\ op # "destroy" -> "NotFoundError"
      [] e = "bookshelf.NoRowsDeletedError" /\ op = "destroy"
            -> "NoRowsDeletedError"
      [] e = "bookshelf.NoRowsUpdatedError" /\ op \in {"update", "upsert"}
            -> "NoRowsUpdatedError"
      [] OTHER -> e

\* C11: the catch-all is the last step of every chain and runs once on
\* every rejection, the application errors created by the handlers before
\* it included: for a library signal an operation handles, the caller
\* receives the translation of the new application error, and receives
\* that error itself only if the translation leaves it unchanged.
C11_TranslationIsLastStep ==
    \A c \in Callers :
        Done(c) /\ calls[c].del.kind = "rejected" =>
            LET e == BeforeCatchAll(calls[c].dop, calls[c].del.value)
            IN  /\ calls[c].res = Rejected(bookshelfToApp[e])
                /\ calls[c].res.value = e => bookshelfToApp[e] = e

C11_Witness ==
    /\ bookshelfToApp["NotFoundError"] = "NoRowsDeletedError"
    /\ bookshelfToApp["NoRowsDeletedError"] = "AppDbError"
    /\ \E c \in Callers :
        /\ Done(c)
        /\ calls[c].op = "findOne"
        /\ calls[c].del = Rejected("bookshelf.NotFoundError")
        /\ calls[c].res = Rejected("NoRowsDeletedError")

====
